---- MODULE Spec2Model ----
(***************************************************************************)
(* vcprojm: line-oriented editing of a compile-unit document (.vcxproj)    *)
(* and a filter document (.vcxproj.filters).  The documents are modelled   *)
(* as the text the program holds in memory (String content), split into    *)
(* lines and joined again exactly as the code does.                        *)
(***************************************************************************)
EXTENDS Integers, Sequences, FiniteSets, TLC

VARIABLES
    vcxDisk,    \* the text of the compile-unit document (.vcxproj) on disk
    fltDisk,    \* the text of the filter document (.vcxproj.filters) on disk
    uuids,      \* how many fresh identifiers Uuid::new_v4 has produced
    runs,       \* how many runs of the tool there have been
    last        \* the last run: its arguments, the documents it loaded, what
                \* its calls returned and how it ended

vars == <<vcxDisk, fltDisk, uuids, runs, last>>

(***************************************************************************)
(* Rust str / Vec primitives used by the code                              *)
(***************************************************************************)
None == <<>>
Some(x) == <<x>>

NL == "\n"
QUOTE == "\""
BSLASH == "\\"

\* the 1-based positions at which t occurs in s
occurrences(s, t) == {i \in 1..(Len(s) - Len(t) + 1) : SubSeq(s, i, i + Len(t) - 1) = t}

\* str::find as a 1-based position, 0 when absent
find(s, t) ==
    LET hits == occurrences(s, t)
    IN IF hits = {} THEN 0 ELSE CHOOSE i \in hits : \A j \in hits : i <= j

\* str::rfind as a 1-based position, 0 when absent
rfind(s, t) ==
    LET hits == occurrences(s, t)
    IN IF hits = {} THEN 0 ELSE CHOOSE i \in hits : \A j \in hits : j <= i

\* str::find from position i on: the first occurrence of t at or after i,
\* looked for in stretches of 16 positions
RECURSIVE FindFrom(_, _, _)
FindFrom(s, t, i) ==
    IF i + Len(t) - 1 > Len(s) THEN 0
    ELSE LET hits == {k \in i..(i + 15) :
                         k + Len(t) - 1 <= Len(s) /\ SubSeq(s, k, k + Len(t) - 1) = t}
         IN IF hits # {} THEN CHOOSE k \in hits : \A m \in hits : k <= m
            ELSE FindFrom(s, t, i + 16)

contains(s, t) == FindFrom(s, t, 1) # 0

starts_with(s, t) == Len(t) <= Len(s) /\ SubSeq(s, 1, Len(t)) = t

ends_with(s, t) == Len(t) <= Len(s) /\ SubSeq(s, Len(s) - Len(t) + 1, Len(s)) = t

IsWhite(c) == c \in {" ", "\t", "\r", "\n"}

\* the position of the first character at or after i that is not white space
RECURSIVE first_nonwhite(_, _)
first_nonwhite(s, i) ==
    IF i <= Len(s) /\ IsWhite(SubSeq(s, i, i)) THEN first_nonwhite(s, i + 1) ELSE i

\* the position of the last character at or before i that is not white space
RECURSIVE last_nonwhite(_, _)
last_nonwhite(s, i) ==
    IF i >= 1 /\ IsWhite(SubSeq(s, i, i)) THEN last_nonwhite(s, i - 1) ELSE i

trim_start(s) == SubSeq(s, first_nonwhite(s, 1), Len(s))

trim_end(s) == SubSeq(s, 1, last_nonwhite(s, Len(s)))

trim(s) == trim_end(trim_start(s))

\* str::replace: every non-overlapping occurrence, left to right
RECURSIVE replace(_, _, _)
replace(s, from, to) ==
    LET p == find(s, from) IN
    IF p = 0 \/ Len(from) = 0 THEN s
    ELSE SubSeq(s, 1, p - 1) \o to \o replace(SubSeq(s, p + Len(from), Len(s)), from, to)

\* str::lines: split at "\n", a trailing "\r" of a line is dropped, and a
\* final line terminator yields no empty last line
RECURSIVE lines_from(_, _)
lines_from(s, i) ==
    IF i > Len(s) THEN <<>>
    ELSE LET p == FindFrom(s, NL, i) IN
         IF p = 0 THEN <<SubSeq(s, i, Len(s))>>
         ELSE <<IF p > i /\ SubSeq(s, p - 1, p - 1) = "\r" THEN SubSeq(s, i, p - 2)
                ELSE SubSeq(s, i, p - 1)>>
              \o lines_from(s, p + 1)

lines_of(s) == lines_from(s, 1)

\* [String]::join
RECURSIVE join(_, _)
join(ls, sep) ==
    IF Len(ls) = 0 THEN ""
    ELSE IF Len(ls) = 1 THEN ls[1]
    ELSE ls[1] \o sep \o join(Tail(ls), sep)

\* str::split: the pieces between the occurrences of sep
RECURSIVE split(_, _)
split(s, sep) ==
    LET p == find(s, sep) IN
    IF p = 0 THEN <<s>>
    ELSE <<SubSeq(s, 1, p - 1)>> \o split(SubSeq(s, p + Len(sep), Len(s)), sep)

\* the characters of the documents and arguments, in byte order
Bytes == " ./0123456789ABCDEFGHIJKLMNOPQRSTUVWXYZ\\_abcdefghijklmnopqrstuvwxyz"

\* Ord for str: byte-wise lexicographic order
RECURSIVE str_lt(_, _)
str_lt(a, b) ==
    IF Len(b) = 0 THEN FALSE
    ELSE IF Len(a) = 0 THEN TRUE
    ELSE LET x == find(Bytes, SubSeq(a, 1, 1))
             y == find(Bytes, SubSeq(b, 1, 1))
         IN IF x # y THEN x < y
            ELSE str_lt(SubSeq(a, 2, Len(a)), SubSeq(b, 2, Len(b)))

\* Vec<String>::sort of a vector without duplicates
RECURSIVE sort(_)
sort(S) ==
    IF S = {} THEN <<>>
    ELSE LET least == CHOOSE a \in S : \A b \in S : ~str_lt(b, a)
         IN <<least>> \o sort(S \ {least})

\* String::insert_str at 1-based position p (text goes before the byte at p)
insert_str(s, p, t) == SubSeq(s, 1, p - 1) \o t \o SubSeq(s, p, Len(s))

\* Vec::remove of the 1-based index range a..b
RemoveRange(ls, a, b) == SubSeq(ls, 1, a - 1) \o SubSeq(ls, b + 1, Len(ls))

SeqToSet(s) == {s[i] : i \in 1..Len(s)}

(***************************************************************************)
(* Tag-shaped anchors shared by the scanners                               *)
(***************************************************************************)
\* `line.find("Include=\"")` then `line[start + 9..].find('"')`
include_attr(line) ==
    LET start == find(line, "Include=\"") IN
    IF start = 0 THEN None
    ELSE LET rest == SubSeq(line, start + 9, Len(line))
             end == find(rest, QUOTE)
         IN IF end = 0 THEN None ELSE Some(SubSeq(rest, 1, end - 1))

\* `lines[j].find("<Filter>")` / `lines[j].find("</Filter>")`, text in between
filter_text(line) ==
    LET filter_start == find(line, "<Filter>")
        filter_end == find(line, "</Filter>")
    IN IF filter_start = 0 \/ filter_end = 0 THEN None
       ELSE Some(SubSeq(line, filter_start + 8, filter_end - 1))

is_clcompile_entry(line) == starts_with(trim_start(line), "<ClCompile Include=\"")

is_filter_decl(line) == starts_with(trim_start(line), "<Filter Include=\"")

is_filter_line(line) == starts_with(trim_start(line), "<Filter>")

\* `while j < lines.len() && !lines[j].trim().starts_with(closer)`: the index
\* at which a look-ahead that starts at j stops (Len + 1 when it runs out)
RECURSIVE scan_until_starts(_, _, _)
scan_until_starts(lines, j, closer) ==
    IF j > Len(lines) THEN j
    ELSE IF starts_with(trim(lines[j]), closer) THEN j
    ELSE scan_until_starts(lines, j + 1, closer)

\* `lines.remove(i); while i < len && !lines[i].trim().ends_with(closer)
\* { lines.remove(i) }; if i < len { lines.remove(i) }`
RECURSIVE scan_until_ends(_, _, _)
scan_until_ends(lines, j, closer) ==
    IF j > Len(lines) THEN j
    ELSE IF ends_with(trim(lines[j]), closer) THEN j
    ELSE scan_until_ends(lines, j + 1, closer)

remove_block(lines, i, closer) ==
    RemoveRange(lines, i, scan_until_ends(lines, i + 1, closer))

(***************************************************************************)
(* VcxprojFile                                                             *)
(***************************************************************************)
\* the selector test of VcxprojFile::delete_files
vcx_should_delete(line, target, extension) ==
    IF extension # None THEN contains(line, "." \o extension[1])
    ELSE IF ends_with(target, "/") \/ ends_with(target, BSLASH)
         THEN \/ contains(line, replace(target, "/", BSLASH))
              \/ contains(line, replace(target, BSLASH, "/"))
         ELSE contains(line, target)

RECURSIVE vcx_delete_loop(_, _, _, _, _)
vcx_delete_loop(lines, i, deleted_files, target, extension) ==
    IF i > Len(lines) THEN [lines |-> lines, deleted_files |-> deleted_files]
    ELSE LET line == lines[i] IN
         IF is_clcompile_entry(line) /\ vcx_should_delete(line, target, extension)
         THEN vcx_delete_loop(
                  IF ends_with(trim(line), "/>") THEN RemoveRange(lines, i, i)
                  ELSE remove_block(lines, i, "</ClCompile>"),
                  i, deleted_files \o include_attr(line), target, extension)
         ELSE vcx_delete_loop(lines, i + 1, deleted_files, target, extension)

delete_files(content, target, extension) ==
    LET r == vcx_delete_loop(lines_of(content), 1, <<>>, target, extension)
    IN [content |-> join(r.lines, NL), deleted_files |-> r.deleted_files]

RECURSIVE collect_includes(_, _)
collect_includes(lines, i) ==
    IF i > Len(lines) THEN <<>>
    ELSE (IF is_clcompile_entry(lines[i]) THEN include_attr(lines[i]) ELSE <<>>)
         \o collect_includes(lines, i + 1)

\* VcxprojFile::get_project_files: the include paths, in document order
get_project_files(content) == collect_includes(lines_of(content), 1)

\* `lines[i].find("Condition=\"")` then `lines[i][condition_start + 11..].find('"')`
condition_attr(line) ==
    LET condition_start == find(line, "Condition=\"") IN
    IF condition_start = 0 THEN None
    ELSE LET rest == SubSeq(line, condition_start + 11, Len(line))
             condition_end == find(rest, QUOTE)
         IN IF condition_end = 0 THEN None ELSE Some(SubSeq(rest, 1, condition_end - 1))

is_configuration_block(line) ==
    starts_with(trim_start(line), "<ItemDefinitionGroup Condition=")

\* the inheritance token of a property
inherit_token(property) == "%(" \o property \o ")"

\* the line written for a property that did not exist
new_property_line(property, value) ==
    "      <" \o property \o ">" \o value \o ";" \o inherit_token(property)
    \o "</" \o property \o ">"

\* an extend_property_line that always appends at the end of the list
extend_property_line_appending(line, property, value) ==
    replace(line, "</" \o property \o ">", ";" \o value \o "</" \o property \o ">")

\* an extend_property_line that puts the value first in the list
extend_property_line_prepending(line, property, value) ==
    replace(line, "<" \o property \o ">", "<" \o property \o ">" \o value \o ";")

\* "Add to existing ...": the rewrite of an existing property line
extend_property_line(line, property, value) ==
    IF contains(line, inherit_token(property))
    THEN replace(line, inherit_token(property), value \o ";" \o inherit_token(property))
    ELSE replace(line, "</" \o property \o ">", ";" \o value \o "</" \o property \o ">")

\* an inject_block that extends existing properties and creates none
inject_block_existing_only(lines, i, section, property, value) ==
    LET stop == scan_until_starts(lines, i + 1, "</ItemDefinitionGroup>")
        properties == {k \in (i + 1)..(stop - 1) :
                          starts_with(trim_start(lines[k]), "<" \o property \o ">")}
    IN IF properties = {} THEN lines
       ELSE LET k == CHOOSE a \in properties : \A b \in properties : a <= b
            IN [lines EXCEPT ![k] = extend_property_line(lines[k], property, value)]

\* what the body of the `while i < lines.len()` loop does to one
\* configuration block that starts at line i
inject_block(lines, i, section, property, value) ==
    LET stop == scan_until_starts(lines, i + 1, "</ItemDefinitionGroup>")
        sections == {j \in (i + 1)..(stop - 1) :
                        starts_with(trim_start(lines[j]), "<" \o section \o ">")}
    IN IF sections = {}
       THEN SubSeq(lines, 1, i)
            \o <<"    <" \o section \o ">", new_property_line(property, value),
                 "    </" \o section \o ">">>
            \o SubSeq(lines, i + 1, Len(lines))
       ELSE LET j == CHOOSE a \in sections : \A b \in sections : a <= b
                kstop == scan_until_starts(lines, j + 1, "</" \o section \o ">")
                properties == {k \in (j + 1)..(kstop - 1) :
                                  starts_with(trim_start(lines[k]), "<" \o property \o ">")}
            IN IF properties = {}
               THEN SubSeq(lines, 1, j) \o <<new_property_line(property, value)>>
                    \o SubSeq(lines, j + 1, Len(lines))
               ELSE LET k == CHOOSE a \in properties : \A b \in properties : a <= b
                    IN [lines EXCEPT ![k] = extend_property_line(lines[k], property, value)]

RECURSIVE inject_loop(_, _, _, _, _, _)
inject_loop(lines, i, modified_configs, section, property, value) ==
    IF i > Len(lines) THEN [lines |-> lines, modified_configs |-> modified_configs]
    ELSE IF is_configuration_block(lines[i])
    THEN inject_loop(inject_block(lines, i, section, property, value), i + 1,
                     modified_configs \o condition_attr(lines[i]),
                     section, property, value)
    ELSE inject_loop(lines, i + 1, modified_configs, section, property, value)

\* the body shared, tag names apart, by add_include_directory,
\* add_library_directory and add_library_dependency
inject(content, section, property, value) ==
    LET r == inject_loop(lines_of(content), 1, <<>>, section, property, value)
    IN [content |-> join(r.lines, NL), modified_configs |-> r.modified_configs]

add_include_directory(content, include_path) ==
    inject(content, "ClCompile", "AdditionalIncludeDirectories", include_path)

add_library_directory(content, lib_path) ==
    inject(content, "Link", "AdditionalLibraryDirectories", lib_path)

add_library_dependency(content, lib_name) ==
    inject(content, "Link", "AdditionalDependencies", lib_name)

(***************************************************************************)
(* FilterFile                                                              *)
(***************************************************************************)
\* the filter names of the <Filter> lines in lines[a..b]
filters_in(lines, a, b) ==
    UNION {IF is_filter_line(lines[j]) THEN SeqToSet(filter_text(lines[j])) ELSE {}
           : j \in a..b}

\* is there a <Filter> line in lines[a..b] that contains ">name<"
block_names(lines, a, b, name) ==
    \E j \in a..b : is_filter_line(lines[j]) /\ contains(lines[j], ">" \o name \o "<")

\* `lines.iter().position(|l| l == line)`
RECURSIVE position(_, _, _)
position(lines, line, k) ==
    IF k > Len(lines) THEN 0
    ELSE IF lines[k] = line THEN k ELSE position(lines, line, k + 1)

filter_has_files(lines, filter_name) ==
    \E i \in 1..Len(lines) :
        /\ is_clcompile_entry(lines[i])
        /\ LET line_index == position(lines, lines[i], 1)
               stop == scan_until_starts(lines, line_index + 1, "</ClCompile>")
           IN block_names(lines, line_index + 1, stop - 1, filter_name)

\* the selector test of FilterFile::delete_files_and_filters
flt_should_delete(line, target, extension) ==
    IF extension # None THEN contains(line, "." \o extension[1])
    ELSE IF ends_with(target, "/") \/ ends_with(target, BSLASH)
         THEN \/ contains(line, replace(target, "/", BSLASH))
              \/ contains(line, replace(target, BSLASH, "/"))
         ELSE contains(line, target)

\* first pass: delete ClCompile entries, collect the filters of the deleted
RECURSIVE flt_first_pass(_, _, _, _, _, _)
flt_first_pass(lines, i, deleted_files, filters_to_delete, target, extension) ==
    IF i > Len(lines)
    THEN [lines |-> lines, deleted_files |-> deleted_files,
          filters_to_delete |-> filters_to_delete]
    ELSE LET line == lines[i] IN
         IF is_clcompile_entry(line) /\ flt_should_delete(line, target, extension)
         THEN LET stop == scan_until_starts(lines, i + 1, "</ClCompile>")
              IN flt_first_pass(remove_block(lines, i, "</ClCompile>"), i,
                                deleted_files \o include_attr(line),
                                filters_to_delete \cup filters_in(lines, i + 1, stop - 1),
                                target, extension)
         ELSE flt_first_pass(lines, i + 1, deleted_files, filters_to_delete,
                             target, extension)

is_filter_deletion(target, extension) ==
    /\ ~contains(target, ".")
    /\ ~contains(target, "/")
    /\ ~contains(target, BSLASH)
    /\ extension = None

\* direct filter deletion: delete all files in the targeted filter
RECURSIVE flt_filter_pass(_, _, _, _)
flt_filter_pass(lines, i, deleted_files, target) ==
    IF i > Len(lines) THEN [lines |-> lines, deleted_files |-> deleted_files]
    ELSE LET line == lines[i]
             stop == scan_until_starts(lines, i + 1, "</ClCompile>")
         IN IF is_clcompile_entry(line) /\ block_names(lines, i + 1, stop - 1, target)
            THEN flt_filter_pass(remove_block(lines, i, "</ClCompile>"), i,
                                 deleted_files \o include_attr(line), target)
            ELSE flt_filter_pass(lines, i + 1, deleted_files, target)

\* second pass: delete empty filters or specifically targeted filters
RECURSIVE flt_second_pass(_, _, _, _, _, _)
flt_second_pass(lines, i, deleted_filters, filters_to_delete, target, extension) ==
    IF i > Len(lines) THEN [lines |-> lines, deleted_filters |-> deleted_filters]
    ELSE LET line == lines[i]
             name == include_attr(line)
         IN IF /\ is_filter_decl(line)
               /\ name # None
               /\ \/ name[1] \in filters_to_delete
                  \/ (is_filter_deletion(target, extension) /\ name[1] = target)
                  \/ ~filter_has_files(lines, name[1])
            THEN flt_second_pass(
                     IF ends_with(trim(line), "/>") THEN RemoveRange(lines, i, i)
                     ELSE remove_block(lines, i, "</Filter>"),
                     i, deleted_filters \o name, filters_to_delete, target, extension)
            ELSE flt_second_pass(lines, i + 1, deleted_filters, filters_to_delete,
                                 target, extension)

delete_files_and_filters(content, target, extension) ==
    LET p1 == flt_first_pass(lines_of(content), 1, <<>>, {}, target, extension)
        direct == is_filter_deletion(target, extension)
        p2 == IF direct THEN flt_filter_pass(p1.lines, 1, p1.deleted_files, target)
              ELSE [lines |-> p1.lines, deleted_files |-> p1.deleted_files]
        p3 == flt_second_pass(p2.lines, 1, <<>>,
                              IF direct THEN p1.filters_to_delete \cup {target}
                              ELSE p1.filters_to_delete,
                              target, extension)
    IN [content |-> join(p3.lines, NL),
        deleted_files |-> p2.deleted_files,
        deleted_filters |-> p3.deleted_filters]

\* FilterFile::get_file_filters as the list of (file, filter) insertions made
\* into the HashMap, in document order
RECURSIVE file_filter_pairs(_, _)
file_filter_pairs(lines, i) ==
    IF i > Len(lines) THEN <<>>
    ELSE LET line == lines[i]
             file == include_attr(line)
             stop == scan_until_starts(lines, i + 1, "</ClCompile>")
             found == {j \in (i + 1)..(stop - 1) :
                          is_filter_line(lines[j]) /\ filter_text(lines[j]) # None}
             here == IF /\ is_clcompile_entry(line)
                        /\ file # None
                        /\ ~ends_with(trim(line), "/>")
                        /\ found # {}
                     THEN LET j == CHOOSE k \in found : \A m \in found : k <= m
                          IN <<<<file[1], filter_text(lines[j])[1]>>>>
                     ELSE <<>>
         IN here \o file_filter_pairs(lines, i + 1)

\* the HashMap get_file_filters returns: a later insert of a key replaces
\* an earlier one
get_file_filters(content) ==
    LET pairs == file_filter_pairs(lines_of(content), 1)
        keys == {pairs[k][1] : k \in 1..Len(pairs)}
    IN [f \in keys |->
           LET ks == {k \in 1..Len(pairs) : pairs[k][1] = f}
           IN pairs[CHOOSE k \in ks : \A m \in ks : m <= k][2]]

RECURSIVE collect_filter_decls(_, _)
collect_filter_decls(lines, i) ==
    IF i > Len(lines) THEN <<>>
    ELSE (IF is_filter_decl(lines[i]) THEN include_attr(lines[i]) ELSE <<>>)
         \o collect_filter_decls(lines, i + 1)

\* the filter names FilterFile::get_all_filters collects (first loop), in
\* document order, one per declaration
filter_decls(content) == collect_filter_decls(lines_of(content), 1)

\* FilterFile::get_all_filters: declared filter name -> files assigned to it
get_all_filters(content) ==
    LET ff == get_file_filters(content)
    IN [n \in SeqToSet(filter_decls(content)) |-> {f \in DOMAIN ff : ff[f] = n}]

\* first pass of rename_filter: is a filter named `name` declared
filter_declared(lines, name) ==
    \E i \in 1..Len(lines) : is_filter_decl(lines[i]) /\ include_attr(lines[i]) = Some(name)

\* second pass of rename_filter, one line: the definition, then the assignment
rename_line(line_copy, from, to) ==
    LET trimmed == trim_start(line_copy)
        renamed_decl ==
            IF is_filter_decl(line_copy) /\ include_attr(line_copy) = Some(from)
            THEN replace(line_copy, "Include=\"" \o from \o "\"", "Include=\"" \o to \o "\"")
            ELSE line_copy
    IN IF /\ starts_with(trimmed, "<Filter>")
          /\ ends_with(trimmed, "</Filter>")
          /\ filter_text(line_copy) = Some(from)
       THEN replace(line_copy, ">" \o from \o "<", ">" \o to \o "<")
       ELSE renamed_decl

\* "Collect files that were moved": every ClCompile entry followed, before
\* the next line that starts with </ClCompile>, by a line containing ">to<"
RECURSIVE collect_renamed(_, _, _)
collect_renamed(lines, i, to) ==
    IF i > Len(lines) THEN <<>>
    ELSE LET line == lines[i]
             stop == scan_until_starts(lines, i + 1, "</ClCompile>")
         IN (IF /\ is_clcompile_entry(line)
                /\ include_attr(line) # None
                /\ \E j \in (i + 1)..(stop - 1) : contains(lines[j], ">" \o to \o "<")
             THEN include_attr(line) ELSE <<>>)
            \o collect_renamed(lines, i + 1, to)

\* a rename_filter without its "not found" return
rename_filter_unchecked(content, from, to) ==
    LET lines == lines_of(content)
        renamed == [i \in 1..Len(lines) |-> rename_line(lines[i], from, to)]
    IN [ok |-> TRUE, content |-> join(renamed, NL),
        target_filter_exists |-> filter_declared(lines, to),
        renamed_files |-> collect_renamed(renamed, 1, to)]

rename_filter(content, from, to) ==
    LET lines == lines_of(content)
        renamed == [i \in 1..Len(lines) |-> rename_line(lines[i], from, to)]
    IN IF ~filter_declared(lines, from)
       THEN [ok |-> FALSE, content |-> content,
             target_filter_exists |-> FALSE, renamed_files |-> <<>>]
       ELSE [ok |-> TRUE, content |-> join(renamed, NL),
             target_filter_exists |-> filter_declared(lines, to),
             renamed_files |-> collect_renamed(renamed, 1, to)]

\* first pass of merge_filters: move the files of `from` to `to`
RECURSIVE merge_move(_, _, _, _, _)
merge_move(lines, i, moved_files, from, to) ==
    IF i > Len(lines) THEN [lines |-> lines, moved_files |-> moved_files]
    ELSE LET line == lines[i]
             stop == scan_until_starts(lines, i + 1, "</ClCompile>")
             hits == {j \in (i + 1)..(stop - 1) : contains(lines[j], ">" \o from \o "<")}
         IN IF is_clcompile_entry(line) /\ include_attr(line) # None /\ hits # {}
            THEN LET j == CHOOSE k \in hits : \A m \in hits : k <= m
                 IN merge_move([lines EXCEPT ![j] =
                                    replace(lines[j], ">" \o from \o "<", ">" \o to \o "<")],
                               i + 1, moved_files \o include_attr(line), from, to)
            ELSE merge_move(lines, i + 1, moved_files, from, to)

\* second pass of merge_filters: remove the first definition of `from`
RECURSIVE merge_remove_decl(_, _, _)
merge_remove_decl(lines, i, from) ==
    IF i > Len(lines) THEN lines
    ELSE IF is_filter_decl(lines[i]) /\ include_attr(lines[i]) = Some(from)
    THEN (IF ends_with(trim(lines[i]), "/>") THEN RemoveRange(lines, i, i)
          ELSE remove_block(lines, i, "</Filter>"))
    ELSE merge_remove_decl(lines, i + 1, from)

merge_filters(content, from, to) ==
    LET m == merge_move(lines_of(content), 1, <<>>, from, to)
    IN [content |-> join(merge_remove_decl(m.lines, 1, from), NL),
        moved_files |-> m.moved_files]

(***************************************************************************)
(* std::path::Path, for relative paths written with '/'                    *)
(***************************************************************************)
file_name(path) ==
    LET p == rfind(path, "/") IN IF p = 0 THEN path ELSE SubSeq(path, p + 1, Len(path))

\* Path::extension
extension_of(path) ==
    LET name == file_name(path)
        p == rfind(name, ".")
    IN IF Len(name) = 0 \/ p <= 1 THEN None ELSE Some(SubSeq(name, p + 1, Len(name)))

\* Path::parent
parent_of(path) ==
    LET p == rfind(path, "/") IN
    IF Len(path) = 0 THEN None
    ELSE IF p = 0 THEN Some("") ELSE Some(SubSeq(path, 1, p - 1))

is_source_extension(ext) == ext # None /\ ext[1] \in {"c", "cpp", "cc", "cxx"}

\* `parent.to_string_lossy().replace('/', "\\")` of a scan-relative file
parent_filter_name(file) ==
    LET parent == parent_of(file) IN
    IF parent = None THEN None ELSE Some(replace(parent[1], "/", BSLASH))

\* the position the code inserts at: the end of the <ItemGroup> that holds
\* the first occurrence of `marker` (0: no such place)
itemgroup_insertion_point(content, marker) ==
    LET pos == find(content, marker)
        itemgroup_start == IF pos = 0 THEN 0 ELSE rfind(SubSeq(content, 1, pos - 1), "<ItemGroup>")
        itemgroup_end == IF itemgroup_start = 0 THEN 0
                         ELSE find(SubSeq(content, itemgroup_start, Len(content)), "</ItemGroup>")
    IN IF itemgroup_end = 0 THEN 0 ELSE itemgroup_start + itemgroup_end - 1

\* a vcx_new_entries that registers every path, whatever its extension
RECURSIVE vcx_new_entries_any_extension(_)
vcx_new_entries_any_extension(files) ==
    IF files = <<>> THEN ""
    ELSE "    <ClCompile Include=\"" \o replace(Head(files), "/", BSLASH) \o "\" />\n"
         \o vcx_new_entries_any_extension(Tail(files))

RECURSIVE vcx_new_entries(_)
vcx_new_entries(files) ==
    IF files = <<>> THEN ""
    ELSE (IF is_source_extension(extension_of(Head(files)))
          THEN "    <ClCompile Include=\"" \o replace(Head(files), "/", BSLASH) \o "\" />\n"
          ELSE "")
         \o vcx_new_entries(Tail(files))

\* VcxprojFile::add_source_files
add_source_files(content, files) ==
    LET new_entries == vcx_new_entries(files)
        insertion_point == itemgroup_insertion_point(content, "<ClCompile Include=")
        pos == rfind(content, "</Project>")
    IN IF new_entries = "" THEN content
       ELSE IF insertion_point # 0 THEN insert_str(content, insertion_point, new_entries)
       ELSE IF pos # 0
            THEN insert_str(content, pos,
                     "  <ItemGroup>\n" \o trim_end(new_entries) \o "\n  </ItemGroup>\n")
       ELSE content

\* the filter definitions add_source_files_with_hierarchy writes, for the
\* directories in the order the HashSet iteration yields them
RECURSIVE new_filters_text(_, _)
new_filters_text(dirs, uuid) ==
    IF dirs = <<>> THEN ""
    ELSE "    <Filter Include=\"" \o Head(dirs) \o "\">\n"
         \o "      <UniqueIdentifier>{NEW-" \o ToString(uuid) \o "}</UniqueIdentifier>\n"
         \o "    </Filter>\n"
         \o new_filters_text(Tail(dirs), uuid + 1)

\* a new_clcompile_text that leaves a file without parent directory
\* unassigned
RECURSIVE new_clcompile_text_root_unassigned(_, _)
new_clcompile_text_root_unassigned(project_files, scan_relative_files) ==
    IF project_files = <<>> THEN ""
    ELSE LET filter_name == parent_filter_name(Head(scan_relative_files)) IN
         (IF is_source_extension(extension_of(Head(project_files)))
          THEN (IF filter_name # None /\ filter_name[1] # ""
                THEN "    <ClCompile Include=\"" \o replace(Head(project_files), "/", BSLASH)
                     \o "\">\n"
                     \o "      <Filter>" \o filter_name[1] \o "</Filter>\n"
                     \o "    </ClCompile>\n"
                ELSE "    <ClCompile Include=\"" \o replace(Head(project_files), "/", BSLASH)
                     \o "\" />\n")
          ELSE "")
         \o new_clcompile_text_root_unassigned(Tail(project_files), Tail(scan_relative_files))

RECURSIVE new_clcompile_text(_, _)
new_clcompile_text(project_files, scan_relative_files) ==
    IF project_files = <<>> THEN ""
    ELSE LET filter_name == parent_filter_name(Head(scan_relative_files)) IN
         (IF is_source_extension(extension_of(Head(project_files)))
          THEN "    <ClCompile Include=\"" \o replace(Head(project_files), "/", BSLASH) \o "\">\n"
               \o (IF filter_name # None /\ filter_name[1] # ""
                   THEN "      <Filter>" \o filter_name[1] \o "</Filter>\n"
                   ELSE "      <Filter>Source Files</Filter>\n")
               \o "    </ClCompile>\n"
          ELSE "")
         \o new_clcompile_text(Tail(project_files), Tail(scan_relative_files))

\* the HashSet `dirs` of add_source_files_with_hierarchy
hierarchy_dirs(scan_relative_files) ==
    {parent_filter_name(scan_relative_files[i])[1] :
        i \in {k \in 1..Len(scan_relative_files) :
                  /\ parent_filter_name(scan_relative_files[k]) # None
                  /\ parent_filter_name(scan_relative_files[k])[1] # ""}}

\* FilterFile::add_source_files_with_hierarchy; `dirs` is the HashSet in its
\* iteration order, `uuid` numbers the fresh identifiers
add_source_files_with_hierarchy(content, project_files, scan_relative_files, dirs, uuid) ==
    LET new_filters == new_filters_text(dirs, uuid)
        new_clcompile == new_clcompile_text(project_files, scan_relative_files)
        fpoint == itemgroup_insertion_point(content, "<Filter Include=")
        fpos == find(content, "  </ItemGroup>")
        with_filters ==
            IF new_filters = "" THEN content
            ELSE IF find(content, "<Filter Include=") # 0
                 THEN (IF fpoint # 0 THEN insert_str(content, fpoint, new_filters)
                       ELSE content)
            ELSE IF fpos # 0
                 THEN insert_str(content, fpos,
                          "  <ItemGroup>\n" \o trim_end(new_filters) \o "\n  </ItemGroup>\n")
            ELSE content
        cpoint == itemgroup_insertion_point(with_filters, "<ClCompile Include=")
        cpos == rfind(with_filters, "</Project>")
    IN IF new_clcompile = "" THEN with_filters
       ELSE IF find(with_filters, "<ClCompile Include=") # 0
            THEN (IF cpoint # 0 THEN insert_str(with_filters, cpoint, new_clcompile)
                  ELSE with_filters)
       ELSE IF cpos # 0
            THEN insert_str(with_filters, cpos,
                     "  <ItemGroup>\n" \o trim_end(new_clcompile) \o "\n  </ItemGroup>\n")
       ELSE with_filters

(***************************************************************************)
(* ProjectStructure: the tree view                                         *)
(***************************************************************************)
\* ProjectStructure::from_project: the compile entries of the compile-unit
\* document, each with the filter the filter document assigns to its path,
\* and the declared filters
from_project(vcx, flt) ==
    LET paths == get_project_files(vcx)
        file_filters == get_file_filters(flt)
    IN [files |-> [k \in 1..Len(paths) |->
                      [path |-> paths[k],
                       filter |-> IF paths[k] \in DOMAIN file_filters
                                  THEN Some(file_filters[paths[k]]) ELSE None]],
        filters |-> get_all_filters(flt)]

\* one line of the output: its indentation, its branch symbol, its icon and
\* the name it shows; `of` is the filter or file the line stands for and
\* `under` the filter it is listed in ("" at root level)
OutputLine(prefix, is_last, icon, name, of, under) ==
    [prefix |-> prefix, is_last |-> is_last, icon |-> icon, name |-> name,
     of |-> of, under |-> under]

\* the key under which the first pass files a filter in filter_tree
tree_parent(filter) ==
    LET parts == split(filter, BSLASH)
    IN IF Len(parts) = 1 THEN "" ELSE join(SubSeq(parts, 1, Len(parts) - 1), BSLASH)

\* sort_by_key(|f| &f.path): a stable sort
RECURSIVE sort_by_path(_)
sort_by_path(files) ==
    IF files = <<>> THEN <<>>
    ELSE LET least == {k \in 1..Len(files) :
                          \A m \in 1..Len(files) : ~str_lt(files[m].path, files[k].path)}
             k == CHOOSE a \in least : \A b \in least : a <= b
         IN <<files[k]>> \o sort_by_path(RemoveRange(files, k, k))

\* the lines of the files of a filter, from child_index on
file_lines(files, child_prefix, child_index, total_children, under) ==
    [k \in 1..Len(files) |->
        OutputLine(child_prefix, child_index + k - 1 = total_children - 1, "file",
                   file_name(files[k].path), files[k].path, under)]

\* a level test that cuts at every --level, 0 included
beyond_level_strict(depth, max_level) ==
    max_level # None /\ depth > max_level[1]

\* "Check level restriction for folders": is a filter of this depth left out
beyond_level(depth, max_level) ==
    max_level # None /\ max_level[1] # 0 /\ depth > max_level[1]

\* a file test that counts a file at the depth of its filter
show_files_at_filter_depth(depth, max_level) ==
    max_level = None \/ (max_level[1] > 0 /\ depth <= max_level[1])

\* `show_files`: are the files of a filter of this depth listed
show_files(depth, max_level) ==
    LET file_depth == depth + 1
    IN max_level = None \/ (max_level[1] > 0 /\ file_depth <= max_level[1])

RECURSIVE display_filter_recursive(_, _, _, _, _, _, _, _)
RECURSIVE display_children(_, _, _, _, _, _, _, _, _)

\* ProjectStructure::display_filter_recursive
display_filter_recursive(filter_name, filter_tree, filter_files_map, prefix, is_last, depth, max_level, files_only) ==
    LET files == IF filter_name \in DOMAIN filter_files_map
                 THEN filter_files_map[filter_name] ELSE <<>>
        children == IF filter_name \in DOMAIN filter_tree
                    THEN filter_tree[filter_name] ELSE <<>>
        parts == split(filter_name, BSLASH)
        display_name == parts[Len(parts)]
        child_prefix == prefix \o (IF is_last THEN "    " ELSE "|   ")
        total_children == Len(children) + Len(files)
    IN IF beyond_level(depth, max_level) THEN <<>>
       ELSE IF files_only /\ files = <<>> /\ children = <<>> THEN <<>>
       ELSE <<OutputLine(prefix, is_last, "folder", display_name, filter_name,
                         tree_parent(filter_name))>>
            \o display_children(children, 1, total_children, filter_tree, filter_files_map,
                                child_prefix, depth, max_level, files_only)
            \o (IF show_files(depth, max_level)
                THEN file_lines(sort_by_path(files), child_prefix, Len(children),
                                total_children, filter_name)
                ELSE <<>>)

\* the `for child_filter in &children` loop of display_filter_recursive
display_children(children, k, total_children, filter_tree, filter_files_map, child_prefix, depth, max_level, files_only) ==
    IF k > Len(children) THEN <<>>
    ELSE display_filter_recursive(children[k], filter_tree, filter_files_map, child_prefix,
                                  k - 1 = total_children - 1, depth + 1, max_level,
                                  files_only)
         \o display_children(children, k + 1, total_children, filter_tree,
                             filter_files_map, child_prefix, depth, max_level, files_only)

\* the `for filter_name in root_filters` loop of display_hierarchical_tree
RECURSIVE display_root_filters(_, _, _, _, _, _, _, _)
display_root_filters(root_filters, k, current_index, total_root_items, filter_tree, filter_files_map, level, files_only) ==
    IF k > Len(root_filters) THEN <<>>
    ELSE display_filter_recursive(root_filters[k], filter_tree, filter_files_map, "",
                                  current_index = total_root_items - 1, 1, level,
                                  files_only)
         \o display_root_filters(root_filters, k + 1, current_index + 1, total_root_items,
                                 filter_tree, filter_files_map, level, files_only)

\* ProjectStructure::display_hierarchical_tree
display_hierarchical_tree(filters, filter_files, unfiltered_files, level, files_only) ==
    LET all_filters == sort(DOMAIN filter_files \cup DOMAIN filters)
        parents == {tree_parent(all_filters[k]) : k \in 1..Len(all_filters)}
        filter_tree == [parent \in parents |->
                           SelectSeq(all_filters, LAMBDA f : tree_parent(f) = parent)]
        show_root_files == level = None \/ level[1] > 0
        unfiltered_count == IF show_root_files THEN Len(unfiltered_files) ELSE 0
        root_filters == IF "" \in DOMAIN filter_tree THEN filter_tree[""] ELSE <<>>
        total_root_items == unfiltered_count + Len(root_filters)
    IN (IF show_root_files
        THEN file_lines(unfiltered_files, "", 0, total_root_items, "")
        ELSE <<>>)
       \o display_root_filters(root_filters, 1, unfiltered_count, total_root_items,
                               filter_tree, filter_files, level, files_only)

\* ProjectStructure::display_tree: the lines below the project line, or the
\* "(empty project)" line
display_tree(structure, files_only, level) ==
    IF structure.files = <<>> /\ DOMAIN structure.filters = {}
    THEN <<OutputLine("   ", TRUE, "empty", "(empty project)", "", "")>>
    ELSE LET filtered == SelectSeq(structure.files, LAMBDA f : f.filter # None)
             keys == {filtered[k].filter[1] : k \in 1..Len(filtered)}
             filter_files == [n \in keys |->
                                 SelectSeq(filtered, LAMBDA f : f.filter = Some(n))]
             unfiltered_files == SelectSeq(structure.files, LAMBDA f : f.filter = None)
         IN display_hierarchical_tree(structure.filters, filter_files, unfiltered_files,
                                      level, files_only)

(***************************************************************************)
(* Documents the runs start from.  A project is a list of declared filter  *)
(* nodes and a list of compile entries, each with the node it is assigned  *)
(* to (None: an entry written in self-closing form in the filter document).*)
(* Both documents list the same entries, every assignment names a declared *)
(* node and no node is declared twice.                                     *)
(***************************************************************************)
Entry(path, filter) == [path |-> path, filter |-> filter]

\* the configuration blocks of a project: the Condition of each block (None:
\* an ItemDefinitionGroup without Condition) and the lines inside it
Block(condition, body) == [condition |-> condition, body |-> body]

Configurations ==
    << Block(Some("Debug"),
             <<"    <ClCompile>",
               "      <AdditionalIncludeDirectories>inc;ext;%(AdditionalIncludeDirectories)</AdditionalIncludeDirectories>",
               "    </ClCompile>",
               "    <Link>",
               "      <AdditionalDependencies>a.lib;b.lib</AdditionalDependencies>",
               "    </Link>">>),
       Block(None,
             <<"    <ClCompile>",
               "    </ClCompile>">>),
       Block(Some("Release"),
             <<"    <ClCompile>",
               "      <WarningLevel>Level3</WarningLevel>",
               "    </ClCompile>">>),
       Block(Some("Profile"), <<>>) >>

Projects ==
    { [decls |-> <<"src", "src\\util", "inc", "lib">>,
       entries |-> <<Entry("src\\util\\u.cpp", Some("src\\util")),
                     Entry("src\\util\\v.c", Some("src\\util")),
                     Entry("lib\\m.cpp", Some("lib"))>>,
       configs |-> <<>>],
      [decls |-> <<"gen", "lib">>,
       entries |-> <<Entry("gen\\x.cpp", Some("gen")),
                     Entry("y.cpp", Some("gen")),
                     Entry("gen\\z.cpp", Some("lib"))>>,
       configs |-> <<>>],
      [decls |-> <<"src", "lib">>,
       entries |-> <<Entry("r.cpp", None),
                     Entry("src\\a.cpp", Some("src")),
                     Entry("m.c", Some("lib"))>>,
       configs |-> <<>>],
      [decls |-> <<>>, entries |-> <<>>, configs |-> <<>>],
      [decls |-> <<"lib">>,
       entries |-> <<Entry("lib\\m.cpp", Some("lib"))>>,
       configs |-> Configurations],
      [decls |-> <<"a", "a\\b", "a\\b\\c", "e", "e\\f">>,
       entries |-> <<Entry("a\\top.cpp", Some("a")),
                     Entry("a\\b\\c\\f.cpp", Some("a\\b\\c"))>>,
       configs |-> <<>>] }

RECURSIVE vcx_config_lines(_)
vcx_config_lines(configs) ==
    IF configs = <<>> THEN ""
    ELSE LET block == Head(configs) IN
         (IF block.condition = None THEN "  <ItemDefinitionGroup>\n"
          ELSE "  <ItemDefinitionGroup Condition=\"" \o block.condition[1] \o "\">\n")
         \o (IF block.body = <<>> THEN "" ELSE join(block.body, NL) \o NL)
         \o "  </ItemDefinitionGroup>\n"
         \o vcx_config_lines(Tail(configs))

RECURSIVE vcx_entry_lines(_)
vcx_entry_lines(entries) ==
    IF entries = <<>> THEN ""
    ELSE "    <ClCompile Include=\"" \o Head(entries).path \o "\" />\n"
         \o vcx_entry_lines(Tail(entries))

VcxDocument(project) ==
    "<Project>\n"
    \o vcx_config_lines(project.configs)
    \o (IF project.entries = <<>> THEN ""
        ELSE "  <ItemGroup>\n" \o vcx_entry_lines(project.entries) \o "  </ItemGroup>\n")
    \o "</Project>\n"

RECURSIVE flt_decl_lines(_, _)
flt_decl_lines(decls, k) ==
    IF decls = <<>> THEN ""
    ELSE "    <Filter Include=\"" \o Head(decls) \o "\">\n"
         \o "      <UniqueIdentifier>{ID-" \o ToString(k) \o "}</UniqueIdentifier>\n"
         \o "    </Filter>\n"
         \o flt_decl_lines(Tail(decls), k + 1)

RECURSIVE flt_entry_lines(_)
flt_entry_lines(entries) ==
    IF entries = <<>> THEN ""
    ELSE LET e == Head(entries) IN
         (IF e.filter = None
          THEN "    <ClCompile Include=\"" \o e.path \o "\" />\n"
          ELSE "    <ClCompile Include=\"" \o e.path \o "\">\n"
               \o "      <Filter>" \o e.filter[1] \o "</Filter>\n"
               \o "    </ClCompile>\n")
         \o flt_entry_lines(Tail(entries))

FilterDocument(project) ==
    "<Project>\n"
    \o (IF project.decls = <<>> THEN ""
        ELSE "  <ItemGroup>\n" \o flt_decl_lines(project.decls, 1) \o "  </ItemGroup>\n")
    \o (IF project.entries = <<>> THEN ""
        ELSE "  <ItemGroup>\n" \o flt_entry_lines(project.entries) \o "  </ItemGroup>\n")
    \o "</Project>\n"

(***************************************************************************)
(* Inputs of the runs                                                      *)
(***************************************************************************)
\* the most compile entries a project may hold for an add run to be taken
MaxEntries == 3

\* the most runs in a behaviour that mixes all the commands
MaxRuns == 2

\* the most property-injection runs in a behaviour of those commands alone
MaxInjections == 3

\* --path / --name of the property-injection commands
InjectValues == {"new", "inc"}

\* the most renames before the views of a behaviour of renames and views
MaxRenames == 1

\* the largest --level of the view command
MaxLevel == 3

\* --level of the view command: absent, or a number
Levels == {None} \cup {Some(n) : n \in 0..MaxLevel}

\* --target / --extension of the delete command
DeleteSelectors ==
    { [target |-> None, extension |-> None],
      [target |-> None, extension |-> Some("c")],
      [target |-> None, extension |-> Some("cpp")],
      [target |-> Some("gen"), extension |-> None],
      [target |-> Some("inc"), extension |-> None],
      [target |-> Some("y.cpp"), extension |-> None],
      [target |-> Some("lib\\m.cpp"), extension |-> None],
      [target |-> Some("src/util/"), extension |-> None],
      [target |-> Some("r.cpp"), extension |-> None],
      [target |-> Some("y.cpp"), extension |-> Some("c")] }

\* what the file system does to the saves of a run that writes both
\* documents: both succeed, the first fails, or the first succeeds and the
\* second fails
SaveResults == {"ok", "vcx_fails", "flt_fails"}

\* the context VcxprojFile::save attaches to a failed write
VcxWriteError == "Failed to write vcxproj file"

\* the context FilterFile::save attaches to a failed write
FltWriteError == "Failed to write filters file"

\* the run's result when the saves went as `save`: Ok, or the Err that `?`
\* hands to main
save_outcome(save) == IF save = "ok" THEN "done" ELSE "error"

save_error(save) ==
    IF save = "vcx_fails" THEN Some(VcxWriteError)
    ELSE IF save = "flt_fails" THEN Some(FltWriteError)
    ELSE None

\* --regex / --not of the delete command; the patterns are literals
RegexFilters ==
    { [regex |-> None, negate |-> FALSE],
      [regex |-> Some("gen"), negate |-> FALSE],
      [regex |-> Some("util"), negate |-> TRUE] }

\* <from, to> of the rename command and of a merge
RenamePairs ==
    { <<"src", "new">>, <<"src", "lib">>, <<"gen", "lib">>, <<"gen", "new">>,
      <<"new", "lib">> }

\* the file lists an add run receives from the directory scan: the
\* project-relative paths and the scan-relative paths, in parallel
AddInputs ==
    { [project_files |-> <<"src/n.cpp">>, scan_relative_files |-> <<"src/n.cpp">>],
      [project_files |-> <<"sub/k/t.cc">>, scan_relative_files |-> <<"k/t.cc">>],
      [project_files |-> <<"top.c">>, scan_relative_files |-> <<"top.c">>],
      [project_files |-> <<"src/a.cpp", "src/util/b.cpp">>,
       scan_relative_files |-> <<"src/a.cpp", "src/util/b.cpp">>],
      [project_files |-> <<"inc/x.h", "w.cxx">>,
       scan_relative_files |-> <<"inc/x.h", "w.cxx">>] }

\* the orders in which a HashSet holding the elements of S can be iterated
Orders(S) ==
    {q \in [1..Cardinality(S) -> S] : \A a, b \in 1..Cardinality(S) : q[a] = q[b] => a = b}

\* Regex::is_match for a pattern without metacharacters
is_match(regex, text) == contains(text, regex)

RECURSIVE regex_filter(_, _, _)
regex_filter(files, regex, negate) ==
    IF files = <<>> THEN <<>>
    ELSE (IF is_match(regex, Head(files)) # negate THEN <<Head(files)>> ELSE <<>>)
         \o regex_filter(Tail(files), regex, negate)

(***************************************************************************)
(* The runs (main.rs)                                                      *)
(***************************************************************************)
Init ==
    /\ \E project \in Projects :
          /\ vcxDisk = VcxDocument(project)
          /\ fltDisk = FilterDocument(project)
    /\ uuids = 0
    /\ runs = 0
    /\ last = [op |-> "init"]

\* the preview pass of delete_from_project: what is shown to the caller of
\* the files the trial delete_files call returned
delete_preview(all_deleted_files, regex_pattern, negate) ==
    IF regex_pattern # None
    THEN regex_filter(all_deleted_files, regex_pattern[1], negate)
    ELSE all_deleted_files

\* one run of the delete command; --regex, --not, --dryrun and the answer to
\* the confirmation prompt are drawn here
delete_from_project(target, extension) ==
    LET target_str == IF target = None THEN "" ELSE target[1] IN
    \E vcxproj \in {delete_files(vcxDisk, target_str, extension)},
       filter_file \in {delete_files_and_filters(fltDisk, target_str, extension)},
       rf \in RegexFilters, dryrun \in BOOLEAN, confirm \in BOOLEAN,
       save \in SaveResults :
         LET deleted_files == delete_preview(vcxproj.deleted_files, rf.regex, rf.negate)
             commit == ~(target = None /\ extension = None) /\ deleted_files # <<>>
                       /\ ~dryrun /\ confirm
             outcome == IF target = None /\ extension = None THEN "invalid"
                        ELSE IF deleted_files = <<>> THEN "nothing"
                        ELSE IF dryrun THEN "dryrun"
                        ELSE IF ~confirm THEN "cancelled"
                        ELSE save_outcome(save)
         IN /\ commit \/ save = "ok"
            /\ vcxDisk' = IF commit /\ save # "vcx_fails" THEN vcxproj.content ELSE vcxDisk
            /\ fltDisk' = IF commit /\ save = "ok" THEN filter_file.content ELSE fltDisk
            /\ last' = [op |-> "delete", outcome |-> outcome,
                        save |-> save, error |-> save_error(save),
                        target |-> target, extension |-> extension,
                        regex |-> rf.regex, negate |-> rf.negate,
                        vcx |-> vcxDisk, flt |-> fltDisk,
                        preview |-> IF outcome = "invalid" THEN <<>> ELSE deleted_files,
                        deleted_filters |-> IF outcome = "done"
                                            THEN filter_file.deleted_filters ELSE <<>>]
            /\ UNCHANGED uuids

\* one run of the rename command; --dryrun and the answer to the merge
\* prompt are drawn here
rename_filter_in_project(from, to) ==
    \E renamed \in {rename_filter(fltDisk, from, to)},
       merged \in {merge_filters(fltDisk, from, to)},
       dryrun \in BOOLEAN, confirm \in BOOLEAN :
         LET outcome == IF ~renamed.ok THEN "not_found"
                        ELSE IF renamed.renamed_files = <<>> THEN "nothing"
                        ELSE IF dryrun THEN "dryrun"
                        ELSE IF ~renamed.target_filter_exists THEN "renamed"
                        ELSE IF ~confirm THEN "cancelled"
                        ELSE "merged"
         IN /\ fltDisk' = IF outcome = "renamed" THEN renamed.content
                          ELSE IF outcome = "merged" THEN merged.content
                          ELSE fltDisk
            /\ last' = [op |-> "rename", outcome |-> outcome, from |-> from, to |-> to,
                        vcx |-> vcxDisk, flt |-> fltDisk,
                        memory |-> renamed.content,
                        target_exists |-> renamed.target_filter_exists,
                        renamed_files |-> renamed.renamed_files,
                        moved_files |-> IF outcome = "merged" THEN merged.moved_files
                                        ELSE <<>>]
            /\ UNCHANGED <<vcxDisk, uuids>>

\* FilterFile::load, merge_filters, save
merge_run(from, to) ==
    LET merged == merge_filters(fltDisk, from, to)
    IN /\ fltDisk' = merged.content
       /\ last' = [op |-> "merge", outcome |-> "merged", from |-> from, to |-> to,
                   vcx |-> vcxDisk, flt |-> fltDisk,
                   moved_files |-> merged.moved_files]
       /\ UNCHANGED <<vcxDisk, uuids>>

\* the commit of add_files_to_project for a non-empty list of found files
add_files_to_project(project_files, scan_relative_files, dirs, save) ==
    /\ Len(get_project_files(vcxDisk)) < MaxEntries
    /\ vcxDisk' = IF save # "vcx_fails" THEN add_source_files(vcxDisk, project_files)
                  ELSE vcxDisk
    /\ fltDisk' = IF save = "ok"
                  THEN add_source_files_with_hierarchy(fltDisk, project_files,
                                                       scan_relative_files, dirs, uuids)
                  ELSE fltDisk
    /\ uuids' = IF save = "vcx_fails" THEN uuids ELSE uuids + Len(dirs)
    /\ last' = [op |-> "add", outcome |-> save_outcome(save),
                save |-> save, error |-> save_error(save),
                project_files |-> project_files,
                scan_relative_files |-> scan_relative_files,
                vcx |-> vcxDisk, flt |-> fltDisk]

\* the three property-injection commands: load, inject, save
property_run(kind, value, result) ==
    /\ vcxDisk' = result.content
    /\ last' = [op |-> "inject",
                outcome |-> IF result.modified_configs = <<>> THEN "nothing" ELSE "done",
                kind |-> kind, value |-> value,
                vcx |-> vcxDisk, flt |-> fltDisk,
                modified_configs |-> result.modified_configs]
    /\ UNCHANGED <<fltDisk, uuids>>

add_include_directory_run(include_path) ==
    \E result \in {add_include_directory(vcxDisk, include_path)} :
        property_run("AdditionalIncludeDirectories", include_path, result)

add_library_directory_run(lib_path) ==
    \E result \in {add_library_directory(vcxDisk, lib_path)} :
        property_run("AdditionalLibraryDirectories", lib_path, result)

add_library_dependency_run(lib_name) ==
    \E result \in {add_library_dependency(vcxDisk, lib_name)} :
        property_run("AdditionalDependencies", lib_name, result)

\* view_project_structure: loads both documents and prints the tree; the
\* documents are left alone
view_project_structure(files_only, level) ==
    \E structure \in {from_project(vcxDisk, fltDisk)} :
        /\ last' = [op |-> "view", outcome |-> "done", files_only |-> files_only,
                    level |-> level, vcx |-> vcxDisk, flt |-> fltDisk,
                    files |-> structure.files, filters |-> DOMAIN structure.filters,
                    output |-> display_tree(structure, files_only, level)]
        /\ UNCHANGED <<vcxDisk, fltDisk, uuids>>

View == \E files_only \in BOOLEAN : \E level \in Levels : view_project_structure(files_only, level)

Delete == \E sel \in DeleteSelectors : delete_from_project(sel.target, sel.extension)

Rename ==
    \E pair \in RenamePairs : rename_filter_in_project(pair[1], pair[2])

Merge == \E pair \in RenamePairs : merge_run(pair[1], pair[2])

\* the add command under a file system whose saves go as one of `saves`
AddUnder(saves) ==
    \E input \in AddInputs, save \in saves :
        \E dirs \in Orders(hierarchy_dirs(input.scan_relative_files)) :
            add_files_to_project(input.project_files, input.scan_relative_files, dirs,
                                 save)

Add == AddUnder(SaveResults)

Inject ==
    \E value \in InjectValues :
        \/ add_include_directory_run(value)
        \/ add_library_directory_run(value)
        \/ add_library_dependency_run(value)

\* any command, up to MaxRuns runs
Next ==
    \/ runs < MaxRuns /\ runs' = runs + 1 /\ Delete
    \/ runs < MaxRuns /\ runs' = runs + 1 /\ Rename
    \/ runs < MaxRuns /\ runs' = runs + 1 /\ Merge
    \/ runs < MaxRuns /\ runs' = runs + 1 /\ Add
    \/ runs < MaxRuns /\ runs' = runs + 1 /\ Inject
    \/ runs < MaxRuns /\ runs' = runs + 1 /\ View

Spec == Init /\ [][Next]_vars

\* the delete command alone, any number of runs
NextDelete == Delete /\ UNCHANGED runs

SpecDelete == Init /\ [][NextDelete]_vars

\* the add command alone, every save succeeding, for as long as the project
\* holds fewer than MaxEntries compile entries
NextAdd == AddUnder({"ok"}) /\ UNCHANGED runs

SpecAdd == Init /\ [][NextAdd]_vars

\* the property-injection commands alone, up to MaxInjections runs
NextInject == runs < MaxInjections /\ runs' = runs + 1 /\ Inject

SpecInject == Init /\ [][NextInject]_vars

\* views of the project as it is and as renames leave it
NextView ==
    \/ runs < MaxRenames /\ runs' = runs + 1 /\ Rename
    \/ View /\ UNCHANGED runs

SpecView == Init /\ [][NextView]_vars

\* the rename command and merges alone, any number of runs
NextRename == (Rename \/ Merge) /\ UNCHANGED runs

SpecRename == Init /\ [][NextRename]_vars

(***************************************************************************)
(* What a document says, read back with the program's own readers          *)
(***************************************************************************)
\* the include paths of the compile entries of a document
Entries(content) == SeqToSet(get_project_files(content))

\* the declared filter nodes of a filter document
Declared(content) == SeqToSet(filter_decls(content))

\* how many declarations of node n a filter document holds
DeclCount(content, n) ==
    LET decls == filter_decls(content)
    IN Cardinality({i \in 1..Len(decls) : decls[i] = n})

\* the files assigned to node n
FilesOf(content, n) ==
    LET ff == get_file_filters(content) IN {f \in DOMAIN ff : ff[f] = n}

\* the nodes some file is assigned to
AssignedNodes(content) ==
    LET ff == get_file_filters(content) IN {ff[f] : f \in DOMAIN ff}

\* node a is a proper ancestor of node d
IsAncestor(a, d) == starts_with(d, a \o BSLASH)

\* the extension of an include path: the text after its last dot
PathExtension(path) ==
    LET p == rfind(path, ".") IN IF p = 0 THEN None ELSE Some(SubSeq(path, p + 1, Len(path)))

DeleteDone == last.op = "delete" /\ last.outcome = "done"

(***************************************************************************)
(* Claims                                                                  *)
(***************************************************************************)
\* C1: starting from a filter document in which every assignment names a
\* declared node, after any sequence of committed add, delete, rename and
\* merge runs every assignment names a node that is declared or is an
\* ancestor of a declared node.
C1_AssignmentsNameDeclaredNodes ==
    \A n \in AssignedNodes(fltDisk) :
        \/ n \in Declared(fltDisk)
        \/ \E d \in Declared(fltDisk) : IsAncestor(n, d)

\* C2: the include paths the preview pass of delete_from_project reports are
\* exactly the compile entries the commit pass removes from the compile-unit
\* document.
C2_PreviewEqualsCommit ==
    DeleteDone => SeqToSet(last.preview) = Entries(last.vcx) \ Entries(vcxDisk)

\* C3: if both documents list the same include paths before a committed
\* delete run, they list the same include paths after it.
C3_DeleteKeepsDocumentsInStep ==
    (DeleteDone /\ Entries(last.vcx) = Entries(last.flt))
        => Entries(vcxDisk) = Entries(fltDisk)

\* C4: a delete removes a node declaration only if, after the entries are
\* removed, the node has no assigned file left and no child node left.
C4_OnlyEmptyLeafNodesRemoved ==
    DeleteDone =>
        \A n \in Declared(last.flt) \ Declared(fltDisk) :
            /\ FilesOf(fltDisk, n) = {}
            /\ ~\E d \in Declared(fltDisk) \cup AssignedNodes(fltDisk) : IsAncestor(n, d)

\* C5: a node declared with no assigned files before a delete, that
\* is not the delete target, keeps its declaration.
C5_EmptyNodesKept ==
    DeleteDone =>
        \A n \in Declared(last.flt) :
            (FilesOf(last.flt, n) = {} /\ last.target # Some(n))
                => n \in Declared(fltDisk)

\* C6: a delete whose target is a bare node name removes exactly the files
\* assigned to that node, and the node's declaration; a file assigned to
\* another node is not removed.
C6_NodeDeleteRemovesOnlyItsFiles ==
    (/\ DeleteDone
     /\ last.target # None
     /\ is_filter_deletion(last.target[1], last.extension)
     /\ last.target[1] \in Declared(last.flt))
        => /\ Entries(last.flt) \ Entries(fltDisk) = FilesOf(last.flt, last.target[1])
           /\ last.target[1] \notin Declared(fltDisk)

\* C7: a delete by extension E removes, from both documents, every entry
\* whose include path has extension E and no other entry.
C7_ExtensionDeleteIsExact ==
    (DeleteDone /\ last.extension # None) =>
        /\ Entries(vcxDisk) = {f \in Entries(last.vcx) : PathExtension(f) # last.extension}
        /\ Entries(fltDisk) = {f \in Entries(last.flt) : PathExtension(f) # last.extension}

\* C8: rename_filter(from, to) with `to` already declared reports that the
\* target exists and leaves the document it holds as it was: the rename is
\* not applied and `to` is not declared twice.
C8_RenameToExistingRejected ==
    (/\ last.op = "rename"
     /\ last.from \in Declared(last.flt)
     /\ last.to \in Declared(last.flt))
        => /\ last.target_exists
           /\ DeclCount(last.memory, last.to) = DeclCount(last.flt, last.to)
           /\ last.memory = join(lines_of(last.flt), NL)

\* C9: with `to` not declared, after rename_filter(from, to) `to` is
\* declared, `from` is not, the files of `from` are the files of `to`, the
\* returned list is exactly those files, and every other declaration and
\* assignment is unchanged.
C9_PureRename ==
    (/\ last.op = "rename"
     /\ last.from \in Declared(last.flt)
     /\ last.to \notin Declared(last.flt))
        => /\ last.to \in Declared(last.memory)
           /\ last.from \notin Declared(last.memory)
           /\ FilesOf(last.memory, last.to) = FilesOf(last.flt, last.from)
           /\ SeqToSet(last.renamed_files) = FilesOf(last.flt, last.from)
           /\ Len(last.renamed_files) = Cardinality(FilesOf(last.flt, last.from))
           /\ Declared(last.memory) \ {last.to} = Declared(last.flt) \ {last.from}
           /\ \A n \in AssignedNodes(last.flt) \ {last.from} :
                 FilesOf(last.memory, n) = FilesOf(last.flt, n)

\* C10: after merge_filters(from, to) no file is assigned to `from`, the
\* files of `from` are under `to`, the files of `to` stay there, `from` is
\* not declared, `to` is declared as often as before and the returned list
\* is exactly the moved files; also when `from` was not declared.
C10_Merge ==
    last.op = "merge" =>
        /\ FilesOf(fltDisk, last.from) = {}
        /\ FilesOf(fltDisk, last.to) = FilesOf(last.flt, last.from) \cup FilesOf(last.flt, last.to)
        /\ last.from \notin Declared(fltDisk)
        /\ DeclCount(fltDisk, last.to) = DeclCount(last.flt, last.to)
        /\ SeqToSet(last.moved_files) = FilesOf(last.flt, last.from)
        /\ Len(last.moved_files) = Cardinality(FilesOf(last.flt, last.from))

\* C11: rename_filter(from, to) with `from` not declared returns the
\* not-found error before any change: the document held in memory is the
\* one that was loaded and the filter document on disk is not written.
C11_RenameNotFoundChangesNothing ==
    (last.op = "rename" /\ last.from \notin Declared(last.flt))
        => /\ last.outcome = "not_found"
           /\ last.memory = last.flt
           /\ fltDisk = last.flt

\* a rename of an undeclared node that some file is still assigned to
C11_Witness ==
    /\ last.op = "rename"
    /\ last.outcome = "not_found"
    /\ FilesOf(last.flt, last.from) # {}

\* the node an add run derives for its i-th file, "" when the file has no
\* parent directory, and the include path it registers the file under
AddedNode(i) == parent_filter_name(last.scan_relative_files[i])[1]

AddedPath(i) == replace(last.project_files[i], "/", BSLASH)

AddDone == last.op = "add" /\ last.outcome = "done"

\* C12: adding source files to a filter document without node declarations
\* declares exactly the parent-directory nodes of the added files, assigns
\* each file to its parent node, and get_all_filters lists each file under
\* the key of its node.
C12_AddToEmptyDocument ==
    (/\ AddDone
     /\ Declared(last.flt) = {}
     /\ \A i \in 1..Len(last.project_files) :
           is_source_extension(extension_of(last.project_files[i]))) =>
        LET nested == {i \in 1..Len(last.project_files) : AddedNode(i) # ""}
            file_filters == get_file_filters(fltDisk)
            all_filters == get_all_filters(fltDisk)
        IN /\ Declared(fltDisk) = {AddedNode(i) : i \in nested}
           /\ \A i \in nested :
                 /\ AddedPath(i) \in DOMAIN file_filters
                 /\ file_filters[AddedPath(i)] = AddedNode(i)
                 /\ AddedNode(i) \in DOMAIN all_filters
                 /\ AddedPath(i) \in all_filters[AddedNode(i)]

C14_AddDeclaresOnce ==
    \A n \in Declared(fltDisk) : DeclCount(fltDisk, n) <= 1

\* the include paths of the files of a list that have a source extension,
\* in the order of the list
RECURSIVE SourcePaths(_)
SourcePaths(files) ==
    IF files = <<>> THEN <<>>
    ELSE (IF is_source_extension(extension_of(Head(files)))
          THEN <<replace(Head(files), "/", BSLASH)>> ELSE <<>>)
         \o SourcePaths(Tail(files))

\* the positions of the compile-entry lines of a document, in order
RECURSIVE EntryLines(_, _)
EntryLines(lines, i) ==
    IF i > Len(lines) THEN <<>>
    ELSE (IF is_clcompile_entry(lines[i]) /\ include_attr(lines[i]) # None
          THEN <<i>> ELSE <<>>)
         \o EntryLines(lines, i + 1)

\* C15: compile-unit add appends, in input order, one self-closing line per
\* input path with extension c, cpp, cc or cxx and none for another path, at
\* the end of the existing compile-unit block or in a new block right before
\* the closing root tag; the entries present before remain and a path
\* already registered is registered again.
C15_VcxAddAppends ==
    AddDone =>
        LET before == get_project_files(last.vcx)
            added == SourcePaths(last.project_files)
            lines == lines_of(vcxDisk)
            at == EntryLines(lines, 1)
        IN /\ get_project_files(vcxDisk) = before \o added
           /\ \A k \in (Len(before) + 1)..(Len(before) + Len(added)) :
                 ends_with(trim(lines[at[k]]), "/>")
           /\ added # <<>> =>
                 /\ at[Len(at)] + 1 <= Len(lines)
                 /\ trim(lines[at[Len(at)] + 1]) = "</ItemGroup>"
                 /\ \A k \in (Len(before) + 1)..(Len(at) - 1) : at[k + 1] = at[k] + 1
                 /\ before # <<>> => at[Len(before) + 1] = at[Len(before)] + 1
                 /\ before = <<>> =>
                       /\ trim(lines[at[1] - 1]) = "<ItemGroup>"
                       /\ at[Len(at)] + 2 <= Len(lines)
                       /\ trim(lines[at[Len(at)] + 2]) = "</Project>"

\* an add run whose list holds a path without source extension and a path
\* that was registered already
C15_Witness ==
    /\ AddDone
    /\ \E i \in 1..Len(last.project_files) :
          ~is_source_extension(extension_of(last.project_files[i]))
    /\ \E i \in 1..Len(last.project_files) :
          /\ is_source_extension(extension_of(last.project_files[i]))
          /\ AddedPath(i) \in Entries(last.vcx)

\* the section a property belongs to
SectionOf(property) ==
    IF property = "AdditionalIncludeDirectories" THEN "ClCompile" ELSE "Link"

Properties ==
    {"AdditionalIncludeDirectories", "AdditionalLibraryDirectories", "AdditionalDependencies"}

\* the list a property line holds
ListOf(line, property) ==
    LET open == find(line, "<" \o property \o ">")
        close == find(line, "</" \o property \o ">")
    IN split(SubSeq(line, open + Len(property) + 2, close - 1), ";")

\* the list of a property in the configuration block that starts at line
\* i: None when the block has no such section or the section no such
\* property
BlockProperty(lines, i, property) ==
    LET stop == scan_until_starts(lines, i + 1, "</ItemDefinitionGroup>")
        found == {k \in (i + 1)..(stop - 1) :
                     /\ starts_with(trim(lines[k]), "<" \o property \o ">")
                     /\ \E j \in (i + 1)..(k - 1) :
                           /\ trim(lines[j]) = "<" \o SectionOf(property) \o ">"
                           /\ \A m \in (j + 1)..(k - 1) :
                                 trim(lines[m]) # "</" \o SectionOf(property) \o ">"}
    IN IF found = {} THEN None
       ELSE Some(ListOf(lines[CHOOSE k \in found : \A m \in found : k <= m], property))

RECURSIVE BlockProperties(_, _, _)
BlockProperties(lines, i, property) ==
    IF i > Len(lines) THEN <<>>
    ELSE (IF is_configuration_block(lines[i])
          THEN <<BlockProperty(lines, i, property)>> ELSE <<>>)
         \o BlockProperties(lines, i + 1, property)

\* per configuration block, in document order, the list of a property
PropertyLists(content, property) == BlockProperties(lines_of(content), 1, property)

RECURSIVE BlockIds(_, _)
BlockIds(lines, i) ==
    IF i > Len(lines) THEN <<>>
    ELSE (IF is_configuration_block(lines[i]) THEN condition_attr(lines[i]) ELSE <<>>)
         \o BlockIds(lines, i + 1)

\* the identifiers of the configuration blocks, in document order
ConfigurationIds(content) == BlockIds(lines_of(content), 1)

Count(list, x) == Cardinality({k \in 1..Len(list) : list[k] = x})

\* a is b with some elements left out
RECURSIVE IsSubsequence(_, _)
IsSubsequence(a, b) ==
    IF a = <<>> THEN TRUE
    ELSE IF b = <<>> THEN FALSE
    ELSE IF Head(a) = Head(b) THEN IsSubsequence(Tail(a), Tail(b))
    ELSE IsSubsequence(a, Tail(b))

InjectDone == last.op = "inject"

EndsWithToken(list, property) ==
    Len(list) > 0 /\ list[Len(list)] = inherit_token(property)

\* C16: for each injection command, a property list that ended with its
\* inheritance token before a run holds the token exactly once and last
\* after it, and the values it held are still there in their order.
C16_TokenStaysLast ==
    InjectDone =>
        \A property \in Properties :
            LET before == PropertyLists(last.vcx, property)
                after == PropertyLists(vcxDisk, property)
            IN /\ Len(after) = Len(before)
               /\ \A b \in 1..Len(before) :
                     (before[b] # None /\ EndsWithToken(before[b][1], property)) =>
                         /\ after[b] # None
                         /\ EndsWithToken(after[b][1], property)
                         /\ Count(after[b][1], inherit_token(property)) = 1
                         /\ IsSubsequence(before[b][1], after[b][1])

\* a run of the command that injected into a list ending with the token
C16_Witness ==
    /\ InjectDone
    /\ \E b \in 1..Len(PropertyLists(last.vcx, last.kind)) :
          LET before == PropertyLists(last.vcx, last.kind)[b]
          IN /\ before # None
             /\ EndsWithToken(before[1], last.kind)
             /\ Len(before[1]) >= 3
             /\ Len(PropertyLists(vcxDisk, last.kind)[b][1]) = Len(before[1]) + 1

C18_EveryBlockInjected ==
    InjectDone =>
        LET before == PropertyLists(last.vcx, last.kind)
            after == PropertyLists(vcxDisk, last.kind)
        IN /\ Len(after) = Len(before)
           /\ \A b \in 1..Len(after) :
                 /\ after[b] # None
                 /\ Count(after[b][1], last.value)
                        = (IF before[b] = None THEN 0 ELSE Count(before[b][1], last.value)) + 1
           /\ last.modified_configs = ConfigurationIds(last.vcx)
           /\ ConfigurationIds(vcxDisk) = ConfigurationIds(last.vcx)

\* a run on a project that has a block without the section, a block whose
\* section lacks the property, and a block whose property already holds the
\* injected value
C18_Witness ==
    /\ InjectDone
    /\ Len(last.modified_configs) >= 3
    /\ LET before == PropertyLists(last.vcx, last.kind)
       IN /\ \E b \in 1..Len(before) : before[b] = None
          /\ \E b \in 1..Len(before) :
                before[b] # None /\ Count(before[b][1], last.value) >= 1

ViewDone == last.op = "view"

\* the nodes the view is built over: declared, or named by the assignment
\* of a compile entry
ViewNodes ==
    last.filters \cup {last.files[k].filter[1] :
                          k \in {m \in 1..Len(last.files) : last.files[m].filter # None}}

\* the number of segments of a qualified name
Depth(node) == Len(split(node, BSLASH))

FolderShown(node) ==
    \E k \in 1..Len(last.output) :
        last.output[k].icon = "folder" /\ last.output[k].of = node

FileShown(path, node) ==
    \E k \in 1..Len(last.output) :
        /\ last.output[k].icon = "file"
        /\ last.output[k].of = path
        /\ last.output[k].under = node

\* C19: a view without depth limit and with files_only off shows every node
\* that is declared or named by an assignment, and every compile entry
\* under its node, whether or not the ancestors of the node are declared
\* or hold files.
C19_EveryNodeRendered ==
    (ViewDone /\ last.level = None /\ ~last.files_only) =>
        /\ \A node \in ViewNodes : FolderShown(node)
        /\ \A k \in 1..Len(last.files) :
              FileShown(last.files[k].path,
                        IF last.files[k].filter = None THEN ""
                        ELSE last.files[k].filter[1])

\* C20: a view with --level N, N > 0, and files_only off shows a node
\* exactly when its depth is at most N, shows the files of a shown node
\* exactly when the depth of the node plus one is at most N, and shows the
\* files without node.
C20_DepthLimit ==
    (ViewDone /\ last.level # None /\ ~last.files_only) =>
        (last.level[1] > 0 =>
            /\ \A node \in ViewNodes : FolderShown(node) <=> Depth(node) <= last.level[1]
            /\ \A k \in 1..Len(last.files) :
                  LET file == last.files[k] IN
                  IF file.filter = None THEN FileShown(file.path, "")
                  ELSE FolderShown(file.filter[1]) =>
                          (FileShown(file.path, file.filter[1])
                              <=> Depth(file.filter[1]) + 1 <= last.level[1]))

\* the qualified names of a node and of its ancestors
Lineage(node) ==
    {join(SubSeq(split(node, BSLASH), 1, k), BSLASH) : k \in 1..Depth(node)}

\* the node and all its ancestors are declared or hold files
Rooted(node) == Lineage(node) \subseteq ViewNodes

\* the compile entries assigned to a node
ViewFilesOf(node) ==
    {k \in 1..Len(last.files) : last.files[k].filter = Some(node)}

\* C21 as claimed: a view with --level d shows a node of depth d, its
\* ancestors, and the files assigned to it.
C21_FileShownAtNodeDepth ==
    (ViewDone /\ last.level # None) =>
        \A node \in ViewNodes :
            (Rooted(node) /\ Depth(node) = last.level[1] /\ ViewFilesOf(node) # {}) =>
                /\ \A a \in Lineage(node) : FolderShown(a)
                /\ \A k \in ViewFilesOf(node) : FileShown(last.files[k].path, node)

\* C21 amended: a view with --level d shows a node of depth d and its
\* ancestors but none of the files assigned to it; with --level d + 1 or
\* more the files are shown too.
C21_FileShownBelowNodeDepth ==
    (ViewDone /\ last.level # None) =>
        \A node \in ViewNodes :
            (Rooted(node) /\ ViewFilesOf(node) # {}) =>
                /\ Depth(node) = last.level[1] =>
                      /\ \A a \in Lineage(node) : FolderShown(a)
                      /\ \A k \in ViewFilesOf(node) : ~FileShown(last.files[k].path, node)
                /\ Depth(node) + 1 <= last.level[1] =>
                      /\ \A a \in Lineage(node) : FolderShown(a)
                      /\ \A k \in ViewFilesOf(node) : FileShown(last.files[k].path, node)

\* a view with --level 3 of a hierarchy three nodes deep whose deepest node
\* holds a file
C21_Witness ==
    /\ ViewDone
    /\ last.level = Some(3)
    /\ \E node \in ViewNodes :
          /\ Depth(node) = 3
          /\ Rooted(node)
          /\ ViewFilesOf(node) # {}
          /\ FolderShown(node)

\* the filters a view shows
FoldersShown(output) ==
    {output[k].of : k \in {m \in 1..Len(output) : output[m].icon = "folder"}}

\* C22: a view with --level 0 shows no file, and shows a filter of any
\* depth that the view without --level shows.
C22_LevelZeroFoldersOnly ==
    (ViewDone /\ last.level = Some(0)) =>
        /\ \A k \in 1..Len(last.output) : last.output[k].icon # "file"
        /\ FoldersShown(last.output)
              = FoldersShown(display_tree(from_project(last.vcx, last.flt),
                                          last.files_only, None))

\* a view with --level 0 of a project with files at root level and in
\* filters, or with a filter of depth 3
C22_Witness ==
    /\ ViewDone
    /\ last.level = Some(0)
    /\ \E node \in ViewNodes : Depth(node) = 3 /\ FolderShown(node) /\ ViewFilesOf(node) # {}

\* is a file shown in the filter or below it
FileShownWithin(node) ==
    \E k \in 1..Len(last.output) :
        /\ last.output[k].icon = "file"
        /\ (last.output[k].under = node \/ IsAncestor(node, last.output[k].under))

\* C23: a view with files_only shows no filter in and below which no file
\* is shown.
C23_FilesOnlyElidesEmptySubtrees ==
    (ViewDone /\ last.files_only) =>
        \A node \in ViewNodes : ~FileShownWithin(node) => ~FolderShown(node)

\* C24: in every view, of the lines written under the same parent the last
\* has the terminal connector and the others the non-terminal one, and the
\* prefix of a line is the prefix of its parent extended by blanks when the
\* parent was a last sibling and by a bar otherwise.
C24_Connectors ==
    ViewDone =>
        \A k \in 1..Len(last.output) :
            LET line == last.output[k] IN
            line.icon \in {"folder", "file"} =>
                /\ line.is_last <=>
                      ~\E m \in (k + 1)..Len(last.output) :
                          last.output[m].under = line.under
                /\ line.under # "" =>
                      \E m \in 1..(k - 1) :
                          /\ last.output[m].icon = "folder"
                          /\ last.output[m].of = line.under
                          /\ line.prefix = last.output[m].prefix
                                \o (IF last.output[m].is_last THEN "    " ELSE "|   ")

Unwritten == vcxDisk = last.vcx /\ fltDisk = last.flt

\* C25: a delete run given both a target and an extension, like one given
\* neither, ends as invalid input and changes no document.
C25_BothSelectorsRejected ==
    (/\ last.op = "delete"
     /\ (last.target = None) = (last.extension = None))
        => last.outcome = "invalid" /\ Unwritten

\* the run matched nothing: a delete whose preview is empty, a rename of a
\* declared node without files, an injection that found no configuration
\* block
NothingMatched ==
    \/ last.op = "delete" /\ last.outcome # "invalid" /\ last.preview = <<>>
    \/ last.op = "rename" /\ last.outcome # "not_found" /\ last.renamed_files = <<>>
    \/ last.op = "inject" /\ last.modified_configs = <<>>

\* C26: a run that matched nothing ends with the nothing-matched outcome
\* and leaves both documents as they were.
C26_NothingMatchedWritesNothing ==
    NothingMatched => last.outcome = "nothing" /\ Unwritten

\* the errors of a load or a save that fails on its own
OrdinaryErrors ==
    {"Failed to read vcxproj file", VcxWriteError, "Failed to read filters file",
     FltWriteError}

\* C27: when a delete or an add has saved the compile-unit document and the
\* save of the filter document fails, the run ends with an error that is
\* none of the errors of an ordinary load or save failure.
C27_OutOfSyncIsDistinct ==
    (last.op \in {"delete", "add"} /\ last.save = "flt_fails") =>
        /\ last.outcome = "error"
        /\ last.error # None
        /\ last.error[1] \notin OrdinaryErrors

\* the runs of the commands that edit a document in place
MutatorRan == last.op \in {"delete", "inject", "rename", "merge"}

\* C28: a delete, injection, rename or merge run keeps the final newline of
\* each document, and a run that matched nothing leaves on disk, and holds
\* in memory, the text it loaded.
C28_UneditedTextPreserved ==
    MutatorRan =>
        /\ ends_with(vcxDisk, NL) = ends_with(last.vcx, NL)
        /\ ends_with(fltDisk, NL) = ends_with(last.flt, NL)
        /\ NothingMatched => Unwritten
        /\ (last.op = "rename" /\ last.outcome = "nothing") => last.memory = last.flt

\* the node a filter document assigns to a path, if any
AssignmentOf(content, path) ==
    LET ff == get_file_filters(content)
    IN IF path \in DOMAIN ff THEN Some(ff[path]) ELSE None

\* does the selector of the last delete run match the entry of this path
\* and assignment
SelectorMatches(path, filter) ==
    LET target == IF last.target = None THEN "" ELSE last.target[1]
    IN \/ flt_should_delete("    <ClCompile Include=\"" \o path \o "\"", target,
                            last.extension)
       \/ is_filter_deletion(target, last.extension) /\ filter = Some(target)

\* C29: after a committed delete the filter document still lists every
\* compile entry the selector does not match, with the assignment it had.
C29_UnmatchedEntriesKept ==
    DeleteDone =>
        \A path \in Entries(last.flt) :
            ~SelectorMatches(path, AssignmentOf(last.flt, path)) =>
                /\ path \in Entries(fltDisk)
                /\ AssignmentOf(fltDisk, path) = AssignmentOf(last.flt, path)

\* C30: when a rename finds its target declared, the files it reports as
\* the files of `from` are none of the files assigned to `to` before the
\* run, and are the files the merge then moves.
C30_RenamePreviewEqualsMerge ==
    (last.op = "rename" /\ last.target_exists) =>
        /\ SeqToSet(last.renamed_files) \cap FilesOf(last.flt, last.to) = {}
        /\ last.outcome = "merged" => last.renamed_files = last.moved_files
====
